---- MODULE Spec2Model ----
(***************************************************************************)
(* tvmagick splicer: the seeded chunker (core/chunk.py), the concurrency   *)
(* coordinator of cli.py main / gui.py _run_pipeline, the assembler        *)
(* (core/assemble.py) and the manifest recorder (core/manifest.py).        *)
(*                                                                         *)
(* Paths are modelled relative to the run's work directory as triples      *)
(* <<kind, a, b>>; indices keep the 0-based values of the code, sequences  *)
(* are 1-based.  Luma values are integers in units of 1/LumaScale.         *)
(***************************************************************************)
EXTENDS Integers, Sequences, FiniteSets, TLC

VARIABLES
    env,                \* inputs of the run: seed, files, config, media-service outcomes
    run,                \* 1 for the first invocation, 2 for the re-run with the same inputs
    prev,               \* what the first invocation recorded (for the re-run comparison)
    pc,                 \* position of the main thread
    rng,                \* state of the main generator random.Random(config.rng_seed)
    results,            \* cli.py results: (idx, out, msg) in completion order, then sorted
    normalized_videos,  \* cli.py normalized_videos
    images,             \* cli.py images (surviving image inputs)
    log,                \* lines printed so far, as <<message, file>>
    sub_seeds,          \* cli.py sub_seeds
    tasks,              \* one chunk task per normalized video (the _chunk_one futures)
    chunk_results,      \* cli.py chunk_results: (idx, chunks) in completion order
    all_chunks,         \* cli.py all_chunks
    manifest,           \* the Manifest object
    saved,              \* TRUE once manifest.save has written the manifest file
    loop_i,             \* loop index of the main thread (for i, img in enumerate(...))
    asm,                \* locals of assemble(): sequence, caches, maps
    unit                \* a stand-alone chunk_video call: its config and its loop state

coordVars == <<results, normalized_videos, images, log, sub_seeds, tasks,
               chunk_results, all_chunks>>
runVars   == <<pc, rng, coordVars, manifest, saved, loop_i, asm>>
vars      == <<env, run, prev, runVars, unit>>

NoPath == <<"None", 0, 0>>      \* Python None where a path is expected

(* ---------------------------------------------------------------- bounds *)
MaxVideos      == 2     \* input videos per run
MaxImages      == 2     \* input images per run
MaxInputs      == 3     \* input files (videos and images) per run
MaxSeed        == 0     \* seeds 0..MaxSeed
MaxFaults      == 1     \* media-service calls that may fail in one run
MaxSalt        == 1     \* iteration orders 0..MaxSalt of a set of strings (hash seeds)
MaxUnitFrames  == 7     \* frame counts 0..MaxUnitFrames of the stand-alone chunker
MaxCalls       == 3     \* calls made on a stand-alone Manifest
MaxChunkFrames == 3     \* chunk_frames_min <= chunk_frames_max <= MaxChunkFrames

(* --------------------------------------------------------------- helpers *)
Min(a, b) == IF a <= b THEN a ELSE b
Max(a, b) == IF a >= b THEN a ELSE b
Abs(a)    == IF a >= 0 THEN a ELSE -a
Range(s)  == {s[i] : i \in 1..Len(s)}

RECURSIVE SumSeq(_)
SumSeq(s) == IF s = <<>> THEN 0 ELSE Head(s) + SumSeq(Tail(s))

RECURSIVE Flatten(_)
Flatten(ss) == IF ss = <<>> THEN <<>> ELSE Head(ss) \o Flatten(Tail(ss))

InsertAt(s, pos, x) == SubSeq(s, 1, pos) \o <<x>> \o SubSeq(s, pos + 1, Len(s))

(* one more request for key x in the tally b *)
Count(b, x) == IF x \in DOMAIN b THEN [b EXCEPT ![x] = @ + 1] ELSE (x :> 1) @@ b

(* ----------------------------------------------------------------- paths *)
NormPath(idx)     == <<"norm", idx, 0>>        \* norm_dir / norm_{idx:04d}.mp4
ChunkPath(v, k)   == <<"chunk", v, k>>         \* chunk_dir / v{v:04d} / chunk_{k:05d}.mp4
ImgSegPath(i)     == <<"img_segment", i, 0>>   \* work_dir / img_segment_{i:04d}.mp4
BufferPath        == <<"buffer_gray", 0, 0>>   \* work_dir / buffer_gray.mp4
LnormPath(idx)    == <<"lnorm", idx, 0>>       \* norm_dir / lnorm_{idx:05d}.mp4
OutputPath        == <<"splicer_output", 0, 0>>

(* ------------------------------------------------------------- generator *)
(* random.Random is a deterministic stream fixed by its seed.  The model   *)
(* keeps that: a multiplicative congruential generator of period 30.       *)
RngNext(s)  == (3 * s) % 31
RngSeed(sd) == 1 + (sd % 30)
(* rng.randint(lo, hi): one step of the generator, a value in lo..hi *)
RandInt(s, lo, hi) == [val |-> lo + (RngNext(s) % (hi - lo + 1)), rng |-> RngNext(s)]

(* rng.shuffle(x): for i in reversed(range(1, len(x))): j = randbelow(i + 1); swap *)
RECURSIVE ShuffleFrom(_, _, _)
ShuffleFrom(x, i, s) ==
    IF i < 1 THEN [list |-> x, rng |-> s]
    ELSE LET d == RandInt(s, 0, i)
             j == d.val
             y == [x EXCEPT ![i + 1] = x[j + 1], ![j + 1] = x[i + 1]]
         IN  ShuffleFrom(y, i - 1, d.rng)
ShuffleTwice(x, s) ==
    ShuffleFrom(ShuffleFrom(x, Len(x) - 1, s).list, Len(x) - 1, ShuffleFrom(x, Len(x) - 1, s).rng)
Shuffle(x, s) == ShuffleFrom(x, Len(x) - 1, s)

(* --------------------------------------------------------------- chunker *)
Configs == {c \in [chunk_frames_min : 1..MaxChunkFrames, chunk_frames_max : 1..MaxChunkFrames] :
                c.chunk_frames_min <= c.chunk_frames_max}

ChunkInfo(src, start, count, path, index) ==
    [source_file |-> src, start_frame |-> start, frame_count |-> count,
     chunk_path |-> path, chunk_index |-> index]

(* a chunk task before its worker has started it *)
QueuedTask(sd) ==
    [state |-> "queued", total_frames |-> 0, current_frame |-> 0, chunk_idx |-> 0,
     chunks |-> <<>>, sub_rng |-> RngSeed(sd), draws |-> 0, clamps |-> 0]

(* chunk.py:39-48: probe the normalized file, return [] for a file without frames *)
ChunkProbe(t, probe_ok, frames) ==
    IF ~probe_ok THEN [t EXCEPT !.state = "raised"]
    ELSE IF frames <= 0 THEN [t EXCEPT !.state = "returned", !.total_frames = frames]
    ELSE [t EXCEPT !.state = "running", !.total_frames = frames,
                   !.current_frame = 0, !.chunk_idx = 0, !.chunks = <<>>]

(* chunk.py:56: not enough frames left for a valid chunk *)
TooShortNever(remaining, cfg) == FALSE
TooShort(remaining, cfg) == remaining < cfg.chunk_frames_min

(* chunk.py:58: clamp the drawn duration to the remaining frames *)
ClampNone(duration, remaining) == duration
ClampBelow(duration, remaining) == Min(duration, remaining - 1)
Clamp(duration, remaining) == Min(duration, remaining)

(* chunk.py:52: the draw is made at the top of the loop body, before the check *)
DrawsAfterOnlyOnEmit(t, emitted) == IF emitted THEN t.draws + 1 ELSE t.draws
DrawsAfter(t, emitted) == t.draws + 1

(* chunk.py:50-82: one evaluation of the while condition and, if it holds, one *)
(* loop body, given the value the generator returned and the extraction result *)
ChunkLoop(t, cfg, src, vdir, drawn, extract_ok) ==
    IF ~(t.current_frame < t.total_frames)
    THEN [t EXCEPT !.state = "returned"]
    ELSE LET remaining == t.total_frames - t.current_frame
             duration  == Clamp(drawn.val, remaining)
             end_frame == t.current_frame + duration
         IN  IF TooShort(remaining, cfg)
             THEN [t EXCEPT !.state = "returned", !.sub_rng = drawn.rng,
                            !.draws = DrawsAfter(t, FALSE)]
             ELSE IF ~extract_ok
             THEN [t EXCEPT !.state = "raised", !.sub_rng = drawn.rng,
                            !.draws = DrawsAfter(t, TRUE)]
             ELSE [t EXCEPT !.sub_rng = drawn.rng,
                            !.draws = DrawsAfter(t, TRUE),
                            !.chunks = Append(@, ChunkInfo(src, t.current_frame, duration,
                                                           ChunkPath(vdir, t.chunk_idx),
                                                           t.chunk_idx)),
                            !.current_frame = end_frame,
                            !.chunk_idx = @ + 1,
                            !.clamps = IF duration < drawn.val THEN @ + 1 ELSE @]

(* ----------------------------------------- stand-alone chunk_video calls *)
(* One call of chunk_video on a source of any frame count, under any       *)
(* config, with every value the generator may return at each draw.         *)
UnitStates ==
    {[cfg |-> c, frames |-> f, task |-> QueuedTask(0)] : c \in Configs, f \in 0..MaxUnitFrames}

UnitProbe ==
    /\ unit.task.state = "queued"
    /\ unit' = [unit EXCEPT !.task = ChunkProbe(@, TRUE, unit.frames)]
    /\ UNCHANGED <<env, run, prev, pc, rng, results, normalized_videos, images, log,
                   sub_seeds, tasks, chunk_results, all_chunks, manifest, saved, loop_i, asm>>

UnitLoop ==
    /\ unit.task.state = "running"
    /\ \E v \in unit.cfg.chunk_frames_min .. unit.cfg.chunk_frames_max :
          unit' = [unit EXCEPT !.task =
                      ChunkLoop(@, unit.cfg, NormPath(0), 0,
                                [val |-> v, rng |-> RngNext(unit.task.sub_rng)], TRUE)]
    /\ UNCHANGED <<env, run, prev, pc, rng, results, normalized_videos, images, log,
                   sub_seeds, tasks, chunk_results, all_chunks, manifest, saved, loop_i, asm>>


(* ------------------------------------------------- media-service adapter *)
(* Every external call has one outcome per file, fixed for the run and for *)
(* its re-run: env.memo records the outcome the first time a call is made. *)
(* At most env.faults of the calls of a run fail.                          *)
Key(name, path) == <<name>> \o path
Outcome(kind, val) == [kind |-> kind, val |-> val]
Outcomes(key, S) ==
    IF key \in DOMAIN env.memo THEN {env.memo[key]}
    ELSE {o \in S : o.kind # "ok" => env.faults > 0}
EnvAfter(key, o) ==
    IF key \in DOMAIN env.memo THEN env
    ELSE [env EXCEPT !.memo = @ @@ (key :> o),
                     !.faults = IF o.kind # "ok" THEN @ - 1 ELSE @]

VideoPath(idx) == <<"video", idx, 0>>
ImagePath(idx) == <<"image", idx, 0>>

(* probe + normalize_video of one input: ProbeError (probe.py:55,68,80), *)
(* RuntimeError (normalize.py:125), subprocess.TimeoutExpired            *)
(* (probe.py:66, normalize.py:123 pass timeout= to subprocess.run)       *)
NormalizeOutcomes ==
    {Outcome(k, 0) : k \in {"ok", "probe_error", "normalize_error", "timeout"}}
(* probe of one input image, cli.py:99 *)
ImageProbeOutcomes == {Outcome(k, 0) : k \in {"ok", "probe_error", "timeout"}}
(* probe of a normalized video, chunk.py:39-40: its frame count *)
FrameCounts == {0, 1, 5}
NormProbeOutcomes ==
    {Outcome("ok", f) : f \in FrameCounts} \cup {Outcome("probe_error", 0)}
(* _extract_chunk, chunk.py:111-117 *)
ExtractOutcomes == {Outcome("ok", 0), Outcome("error", 0)}

(* ----------------------------------------------------------- coordinator *)
(* cli.py:80-81 / gui.py:180-181: except (ProbeError, RuntimeError) *)
Caught(kind) == kind \in {"probe_error", "normalize_error"}

(* list.sort(key=lambda r: r[0]): stable insertion by idx *)
RECURSIVE InsertByIdx(_, _)
InsertByIdx(sorted, r) ==
    IF sorted = <<>> THEN <<r>>
    ELSE IF r.idx < Head(sorted).idx THEN <<r>> \o sorted
    ELSE <<Head(sorted)>> \o InsertByIdx(Tail(sorted), r)
RECURSIVE SortedFrom(_, _)
SortedFrom(done, rest) ==
    IF rest = <<>> THEN done ELSE SortedFrom(InsertByIdx(done, Head(rest)), Tail(rest))
UnsortedByIdx(s) == s
SortByIdx(s) == SortedFrom(<<>>, s)

(* cli.py:93: [out for _, out, _ in results if out is not None] *)
Survivors(rs) == LET keep == SelectSeq(rs, LAMBDA r : r.out # NoPath)
                 IN  [k \in 1..Len(keep) |-> keep[k].out]

(* cli.py:134-141: concatenate per-source lists in order and re-index *)
ReindexKeep(cs) == cs
Reindex(cs) == [k \in 1..Len(cs) |-> [cs[k] EXCEPT !.chunk_index = k - 1]]
AllChunks(crs) == Reindex(Flatten([k \in 1..Len(crs) |-> crs[k].chunks]))

(* manifest.py:27-37 *)
NewManifest ==
    [rng_seed |-> env.seed, chunks |-> <<>>, image_insertions |-> <<>>,
     luma_flags |-> <<>>, sequence_order |-> <<>>, expected_frame_count |-> 0,
     actual_frame_count |-> 0, output_checksum |-> "", output_path |-> NoPath]

(* assemble() before its first statement *)
NoAsm ==
    [chunk_paths |-> <<>>, chunk_frame_map |-> <<>>, image_segments |-> <<>>,
     image_frame_map |-> <<>>, sequence |-> <<>>, buffer_path |-> NoPath,
     luma_cache |-> <<>>, norm_cache |-> <<>>, unique_paths |-> <<>>,
     global_mean |-> 0, encode_jobs |-> <<>>, pending |-> {},
     norm_frame_map |-> <<>>, expected |-> 0,
     measured |-> <<>>, encoded |-> <<>>, probed |-> <<>>, concats |-> 0]

(* the state of one invocation at the start of phase 1 *)
RunInit ==
    /\ pc = "normalize"
    /\ rng = RngSeed(env.seed)
    /\ results = <<>>
    /\ normalized_videos = <<>>
    /\ images = [k \in 1..env.ni |-> ImagePath(k - 1)]
    /\ log = <<>>
    /\ sub_seeds = <<>>
    /\ tasks = <<>>
    /\ chunk_results = <<>>
    /\ all_chunks = <<>>
    /\ manifest = NewManifest
    /\ saved = FALSE
    /\ loop_i = 0
    /\ asm = NoAsm

(* config.py:21-33; luma strength in halves, delta threshold in luma units *)
PipelineConfigs ==
    {c \in [chunk_frames_min : {2}, chunk_frames_max : {3},
            image_frames_min : {1}, image_frames_max : {2},
            antistrobe_enabled : BOOLEAN, antistrobe_buffer_frames : {0, 1},
            antistrobe_luma_strength2 : {0, 1}, antistrobe_delta_threshold : {0, 1, 20}] :
        \* with the toggle off the three anti-strobe settings are never read:
        \* one value of each is enough there
        IF c.antistrobe_enabled
        THEN c.antistrobe_delta_threshold \in {0, 1}
        ELSE c.antistrobe_buffer_frames = 1 /\ c.antistrobe_luma_strength2 = 1
             /\ c.antistrobe_delta_threshold = 20}

Envs ==
    {e \in [seed : 0..MaxSeed, nv : 0..MaxVideos, ni : 0..MaxImages, cfg : PipelineConfigs,
            memo : {<<>>}, faults : {MaxFaults}] :
        e.nv + e.ni <= MaxInputs}

IdleUnit == [cfg |-> [chunk_frames_min |-> 1, chunk_frames_max |-> 1], frames |-> 0,
             task |-> QueuedTask(0)]

Init ==
    /\ env \in Envs
    /\ run = 1
    /\ prev = [set |-> FALSE]
    /\ RunInit
    /\ unit = IdleUnit

Submitted == 0..(env.nv - 1)
Completed == {results[k].idx : k \in 1..Len(results)}

(* cli.py:72-89: one _normalize_one future completes and the main thread *)
(* takes it from as_completed, prints its message and appends its result *)
NormalizeComplete(idx) ==
    /\ pc = "normalize"
    /\ idx \in Submitted \ Completed
    /\ \E o \in Outcomes(Key("normalize_one", VideoPath(idx)), NormalizeOutcomes) :
         /\ env' = EnvAfter(Key("normalize_one", VideoPath(idx)), o)
         /\ IF o.kind = "ok"
            THEN /\ results' = Append(results, [idx |-> idx, out |-> NormPath(idx), msg |-> "ok"])
                 /\ log' = Append(log, <<"ok", VideoPath(idx)>>)
                 /\ pc' = pc
            ELSE IF Caught(o.kind)
            THEN /\ results' = Append(results, [idx |-> idx, out |-> NoPath, msg |-> "SKIPPED"])
                 /\ log' = Append(log, <<"SKIPPED", VideoPath(idx)>>)
                 /\ pc' = pc
            ELSE /\ pc' = "crashed:normalize"       \* future.result() re-raises in the main thread
                 /\ UNCHANGED <<results, log>>
    /\ UNCHANGED <<run, prev, rng, normalized_videos, images, sub_seeds, tasks,
                   chunk_results, all_chunks, manifest, saved, loop_i, asm, unit>>

(* cli.py:91-93: all futures consumed; sort by index, keep the survivors *)
NormalizeCollect ==
    /\ pc = "normalize"
    /\ Completed = Submitted
    /\ results' = SortByIdx(results)
    /\ normalized_videos' = Survivors(SortByIdx(results))
    /\ pc' = "images"
    /\ loop_i' = 0
    /\ UNCHANGED <<env, run, prev, rng, images, log, sub_seeds, tasks,
                   chunk_results, all_chunks, manifest, saved, asm, unit>>

(* cli.py:95-102: validate the next image; a ProbeError drops it from images, *)
(* any other exception leaves main                                           *)
ProbeImage ==
    /\ pc = "images"
    /\ loop_i < env.ni
    /\ LET img == ImagePath(loop_i)
       IN  \E o \in Outcomes(Key("probe", img), ImageProbeOutcomes) :
             /\ env' = EnvAfter(Key("probe", img), o)
             /\ IF o.kind = "ok" THEN UNCHANGED <<images, log, pc>>
                ELSE IF o.kind = "probe_error"
                THEN /\ images' = SelectSeq(images, LAMBDA p : p # img)
                     /\ log' = Append(log, <<"SKIPPED", img>>)
                     /\ pc' = pc
                ELSE /\ pc' = "crashed:images"
                     /\ UNCHANGED <<images, log>>
    /\ loop_i' = loop_i + 1
    /\ UNCHANGED <<run, prev, rng, results, normalized_videos, sub_seeds, tasks,
                   chunk_results, all_chunks, manifest, saved, asm, unit>>

(* cli.py:104-106: nothing survived: sys.exit(1) *)
SurvivalCheck ==
    /\ pc = "images"
    /\ loop_i = env.ni
    /\ pc' = IF normalized_videos = <<>> /\ images = <<>> THEN "aborted" ELSE "seeds"
    /\ UNCHANGED <<env, run, prev, rng, coordVars, manifest, saved, loop_i, asm, unit>>

(* cli.py:112: sub_seeds = [rng.randint(0, 2**31 - 1) for _ in normalized_videos] *)
RECURSIVE DrawSeedsReversed(_, _, _)
DrawSeedsReversed(n, s, acc) ==
    IF n = 0 THEN [seeds |-> acc, rng |-> s]
    ELSE LET d == RandInt(s, 0, 29) IN DrawSeedsReversed(n - 1, d.rng, <<d.val>> \o acc)
RECURSIVE DrawSeeds(_, _, _)
DrawSeeds(n, s, acc) ==
    IF n = 0 THEN [seeds |-> acc, rng |-> s]
    ELSE LET d == RandInt(s, 0, 29) IN DrawSeeds(n - 1, d.rng, Append(acc, d.val))

(* cli.py:111-128: draw every sub-seed, then submit one _chunk_one per video *)
DrawSubSeeds ==
    /\ pc = "seeds"
    /\ LET d == DrawSeeds(Len(normalized_videos), rng, <<>>)
       IN  /\ sub_seeds' = d.seeds
           /\ rng' = d.rng
           /\ tasks' = [k \in 1..Len(normalized_videos) |-> QueuedTask(d.seeds[k])]
    /\ pc' = "chunk"
    /\ UNCHANGED <<env, run, prev, results, normalized_videos, images, log,
                   chunk_results, all_chunks, manifest, saved, loop_i, asm, unit>>

(* cli.py:114-122 with chunk.py:39-44: a worker starts _chunk_one: it builds *)
(* random.Random(seed) and chunk_video probes the normalized file           *)
ChunkStart(k) ==
    /\ pc = "chunk"
    /\ k \in 1..Len(tasks)
    /\ tasks[k].state = "queued"
    /\ \E o \in Outcomes(Key("probe", normalized_videos[k]), NormProbeOutcomes) :
         /\ env' = EnvAfter(Key("probe", normalized_videos[k]), o)
         /\ tasks' = [tasks EXCEPT ![k] = ChunkProbe(@, o.kind = "ok", o.val)]
         /\ log' = IF o.kind = "ok" /\ o.val <= 0       \* chunk.py:43, cli.py:121
                    THEN Append(log, <<"chunks", normalized_videos[k]>>) ELSE log
    /\ UNCHANGED <<run, prev, pc, rng, results, normalized_videos, images, sub_seeds,
                   chunk_results, all_chunks, manifest, saved, loop_i, asm, unit>>

(* chunk.py:50-80: the worker runs one iteration of the chunking loop *)
ChunkIter(k) ==
    /\ pc = "chunk"
    /\ k \in 1..Len(tasks)
    /\ tasks[k].state = "running"
    /\ LET t  == tasks[k]
           ek == Key("extract", ChunkPath(k - 1, t.chunk_idx))
       IN  \E o \in Outcomes(ek, ExtractOutcomes) :
             LET drawn == RandInt(t.sub_rng, env.cfg.chunk_frames_min, env.cfg.chunk_frames_max)
                 nt    == ChunkLoop(t, env.cfg, normalized_videos[k], k - 1, drawn, o.kind = "ok")
                 extracted == nt.state = "raised" \/ Len(nt.chunks) > Len(t.chunks)
             IN  /\ tasks' = [tasks EXCEPT ![k] = nt]
                 /\ IF extracted THEN env' = EnvAfter(ek, o)
                                 ELSE o.kind = "ok" /\ env' = env
                 /\ log' = IF nt.state = "returned"       \* cli.py:121
                            THEN Append(log, <<"chunks", normalized_videos[k]>>) ELSE log
    /\ UNCHANGED <<run, prev, pc, rng, results, normalized_videos, images, sub_seeds,
                   chunk_results, all_chunks, manifest, saved, loop_i, asm, unit>>

Collected == {chunk_results[k].idx : k \in 1..Len(chunk_results)}

(* cli.py:130-131: the main thread takes a finished future from as_completed; *)
(* future.result() returns (idx, chunks) or re-raises the worker's exception *)
ChunkComplete(k) ==
    /\ pc = "chunk"
    /\ k \in 1..Len(tasks)
    /\ (k - 1) \notin Collected
    /\ \/ /\ tasks[k].state = "returned"
          /\ chunk_results' = Append(chunk_results, [idx |-> k - 1, chunks |-> tasks[k].chunks])
          /\ pc' = pc
       \/ /\ tasks[k].state = "raised"
          /\ pc' = "crashed:chunk"
          /\ UNCHANGED chunk_results
    /\ UNCHANGED <<env, run, prev, rng, results, normalized_videos, images, log, sub_seeds,
                   tasks, all_chunks, manifest, saved, loop_i, asm, unit>>

(* manifest.py:39-46 *)
add_chunk(m, c) == [m EXCEPT !.chunks = Append(@, c)]
RECURSIVE AddChunks(_, _)
AddChunks(m, cs) == IF cs = <<>> THEN m ELSE AddChunks(add_chunk(m, Head(cs)), Tail(cs))

(* cli.py:133-154: sort by index, concatenate, re-index, create the manifest *)
(* and record every chunk                                                    *)
Reassemble ==
    /\ pc = "chunk"
    /\ Collected = {k - 1 : k \in 1..Len(tasks)}
    /\ chunk_results' = SortByIdx(chunk_results)
    /\ all_chunks' = AllChunks(SortByIdx(chunk_results))
    /\ manifest' = AddChunks(NewManifest, AllChunks(SortByIdx(chunk_results)))
    /\ pc' = "assemble"
    /\ UNCHANGED <<env, run, prev, rng, results, normalized_videos, images, log, sub_seeds,
                   tasks, saved, loop_i, asm, unit>>

(* -------------------------------------------------------------- assemble *)
(* luma values are kept in units of 1/LumaScale, so that the mean over up  *)
(* to ten distinct paths and the half-steps of the strength are exact      *)
LumaScale == 2 * 2520
Luma(x) == x * LumaScale

(* normalize_image, normalize.py:40-65 via _run_ffmpeg *)
RenderOutcomes == {Outcome(k, 0) : k \in {"ok", "error", "timeout"}}
(* _generate_buffer_frame, assemble.py:186-188 *)
BufferOutcomes == {Outcome(k, 0) : k \in {"ok", "error"}}
(* probe_mean_luma, probe.py:136-163: the mean luma the file has (fixed per *)
(* file: dark clips from even sources, mid-gray ones from odd sources, the *)
(* buffer at 128), or a failure                                            *)
TrueLuma(p) ==
    IF p[1] = "chunk" THEN (IF p[2] % 2 = 0 THEN Luma(100) ELSE Luma(127))
    ELSE IF p[1] = "img_segment" THEN (IF p[2] % 2 = 0 THEN Luma(127) ELSE Luma(100))
    ELSE Luma(128)
LumaOutcomes(p) ==
    IF p = BufferPath THEN {Outcome("ok", TrueLuma(p))}
    ELSE {Outcome("ok", TrueLuma(p)), Outcome("error", 0)}
(* the eq=brightness re-encode, assemble.py:299-301 *)
EncodeOutcomes == {Outcome(k, 0) : k \in {"ok", "error", "timeout"}}
(* _run_concat, assemble.py:389-391 *)
ConcatOutcomes == {Outcome(k, 0) : k \in {"ok", "error", "timeout"}}
(* probe(output_path), assemble.py:102: frames of the output beyond the expected *)
OutputProbeOutcomes == {Outcome("ok", 0), Outcome("ok", 1), Outcome("probe_error", 0)}

(* assemble.py:37-45: shuffle the chunk paths, build chunk_frame_map *)
AsmShuffle ==
    /\ pc = "assemble"
    /\ LET sh == Shuffle([k \in 1..Len(all_chunks) |-> all_chunks[k].chunk_path], rng)
       IN  /\ rng' = sh.rng
           /\ asm' = [NoAsm EXCEPT
                        !.chunk_paths = sh.list,
                        !.chunk_frame_map =
                            [p \in {all_chunks[k].chunk_path : k \in 1..Len(all_chunks)} |->
                                (CHOOSE c \in Range(all_chunks) : c.chunk_path = p).frame_count]]
    /\ pc' = "prepare_images"
    /\ loop_i' = 0
    /\ UNCHANGED <<env, run, prev, coordVars, manifest, saved, unit>>

(* assemble.py:126-130: draw the duration of the next image and render it *)
PrepareImage ==
    /\ pc = "prepare_images"
    /\ loop_i < Len(images)
    /\ LET d   == RandInt(rng, env.cfg.image_frames_min, env.cfg.image_frames_max)
           out == ImgSegPath(loop_i)
       IN  /\ rng' = d.rng
           /\ \E o \in Outcomes(Key("normalize_image", out), RenderOutcomes) :
                /\ env' = EnvAfter(Key("normalize_image", out), o)
                /\ IF o.kind = "ok"
                   THEN /\ asm' = [asm EXCEPT !.image_segments = Append(@, <<out, d.val>>)]
                        /\ pc' = pc
                   ELSE /\ pc' = "crashed:render"     \* normalize_image raises out of assemble
                        /\ asm' = asm
    /\ loop_i' = loop_i + 1
    /\ UNCHANGED <<run, prev, coordVars, manifest, saved, unit>>

(* manifest.py:48-49 *)
add_image(m, entry) == [m EXCEPT !.image_insertions = Append(@, entry)]
(* manifest.py:51-52 *)
add_luma_flag_front(m, flag) == [m EXCEPT !.luma_flags = <<flag>> \o @]
add_luma_flag(m, flag) == [m EXCEPT !.luma_flags = Append(@, flag)]
(* manifest.py:54-57 *)
set_output_skipped(m, path, frame_count) == m
set_output(m, path, frame_count) ==
    [m EXCEPT !.output_path = path, !.actual_frame_count = frame_count,
              !.output_checksum = "sha256"]

(* assemble.py:145: pos = rng.randint(0, len(sequence)) *)
DrawPositionEnd(s, sequence) == [val |-> Len(sequence), rng |-> RngNext(s)]
DrawPosition(s, sequence) == RandInt(s, 0, Len(sequence))

(* assemble.py:142-153 *)
RECURSIVE InterleaveFrom(_, _, _, _)
InterleaveFrom(sequence, segs, s, m) ==
    IF segs = <<>> THEN [sequence |-> sequence, rng |-> s, manifest |-> m]
    ELSE LET d == DrawPosition(s, sequence)
         IN  InterleaveFrom(InsertAt(sequence, d.val, Head(segs)[1]), Tail(segs), d.rng,
                            add_image(m, [source_file |-> Head(segs)[1], position |-> d.val,
                                          duration_frames |-> Head(segs)[2]]))
_interleave_images(chunk_paths, image_segments, s, m) ==
    InterleaveFrom(chunk_paths, image_segments, s, m)

(* assemble.py:48-58: all images rendered; interleave them, build image_frame_map *)
InterleaveImages ==
    /\ pc = "prepare_images"
    /\ loop_i = Len(images)
    /\ LET r == _interleave_images(asm.chunk_paths, asm.image_segments, rng, manifest)
       IN  /\ rng' = r.rng
           /\ manifest' = r.manifest
           /\ asm' = [asm EXCEPT
                        !.sequence = r.sequence,
                        !.image_frame_map =
                            [p \in {sg[1] : sg \in Range(asm.image_segments)} |->
                                (CHOOSE sg \in Range(asm.image_segments) : sg[1] = p)[2]]]
    /\ pc' = "buffers"
    /\ UNCHANGED <<env, run, prev, coordVars, saved, loop_i, unit>>

(* assemble.py:193-207 *)
RECURSIVE _insert_buffers_after_each(_, _)
_insert_buffers_after_each(sequence, buffer_path) ==
    IF sequence = <<>> THEN sequence
    ELSE <<Head(sequence), buffer_path>> \o _insert_buffers_after_each(Tail(sequence), buffer_path)
RECURSIVE _insert_buffers(_, _)
_insert_buffers(sequence, buffer_path) ==
    IF Len(sequence) <= 1 THEN sequence
    ELSE <<Head(sequence), buffer_path>> \o _insert_buffers(Tail(sequence), buffer_path)

(* assemble.py:60-67 *)
InsertBuffers ==
    /\ pc = "buffers"
    /\ IF env.cfg.antistrobe_enabled /\ env.cfg.antistrobe_buffer_frames > 0
       THEN \E o \in Outcomes(Key("buffer", BufferPath), BufferOutcomes) :
              /\ env' = EnvAfter(Key("buffer", BufferPath), o)
              /\ IF o.kind = "ok"
                 THEN /\ asm' = [asm EXCEPT !.buffer_path = BufferPath,
                                            !.sequence = _insert_buffers(@, BufferPath)]
                      /\ pc' = "luma_normalize"
                 ELSE /\ pc' = "crashed:buffer"
                      /\ asm' = asm
       ELSE /\ pc' = "luma_normalize"
            /\ UNCHANGED <<env, asm>>
    /\ UNCHANGED <<run, prev, rng, coordVars, manifest, saved, loop_i, unit>>

(* list(set(sequence)), assemble.py:255: the distinct paths in the iteration *)
(* order of a set of strings, which the hash seed of the process fixes; the  *)
(* model takes the rotations of the first-occurrence order                   *)
WithRepeats(sequence, acc) == acc \o sequence
RECURSIVE Distinct(_, _)
Distinct(sequence, acc) ==
    IF sequence = <<>> THEN acc
    ELSE Distinct(Tail(sequence),
                  IF Head(sequence) \in Range(acc) THEN acc ELSE Append(acc, Head(sequence)))
Rotate(s, r) == [k \in 1..Len(s) |-> s[((k - 1 + r) % Len(s)) + 1]]
SetOrders(sequence) ==
    LET d == Distinct(sequence, <<>>)
    IN  {Rotate(d, r) : r \in 0..Min(MaxSalt, Max(Len(d) - 1, 0))}

(* assemble.py:217 and 406: only the paths the cache does not hold are measured *)
ToProbeAll(paths, cache) == paths
ToProbe(paths, cache) == paths \ DOMAIN cache

(* assemble.py:74, 250-256 and 217: enter _luma_normalize and submit the probes *)
LumaNormalizeStart ==
    /\ pc = "luma_normalize"
    /\ IF env.cfg.antistrobe_enabled /\ env.cfg.antistrobe_luma_strength2 > 0
       THEN \E u \in SetOrders(asm.sequence) :
              /\ asm' = [asm EXCEPT !.unique_paths = u,
                                    !.pending = ToProbe(Range(u), asm.luma_cache)]
              /\ pc' = "luma_probe"
       ELSE /\ pc' = "finalize"
            /\ asm' = asm
    /\ UNCHANGED <<env, run, prev, rng, coordVars, manifest, saved, loop_i, unit>>

(* assemble.py:225-235: a _probe_one future completes; the collecting thread *)
(* writes cache[path]; a failed measurement yields 128.0                     *)
ProbedLumaNoDefault(o) == o.val
ProbedLuma(o) == IF o.kind = "ok" THEN o.val ELSE Luma(128)

LumaProbeComplete(p) ==
    /\ pc \in {"luma_probe", "delta_probe"}
    /\ p \in asm.pending
    /\ \E o \in Outcomes(Key("luma", p), LumaOutcomes(p)) :
         /\ env' = EnvAfter(Key("luma", p), o)
         /\ asm' = [asm EXCEPT !.luma_cache = (p :> ProbedLuma(o)) @@ @,
                               !.pending = @ \ {p},
                               !.measured = Count(@, p)]
    /\ UNCHANGED <<run, prev, pc, rng, coordVars, manifest, saved, loop_i, unit>>

(* assemble.py:261 *)
GlobalMean(cache, unique_paths) ==
    SumSeq([k \in 1..Len(unique_paths) |-> cache[unique_paths[k]]]) \div Len(unique_paths)

(* assemble.py:273: abs(delta) >= 2.0 *)
NeedsEncodeAlways(delta) == TRUE
NeedsEncode(delta) == Abs(delta) >= Luma(2)

(* assemble.py:269-274 *)
EncodeJobs(cache, unique_paths, mean) ==
    LET need == SelectSeq(unique_paths, LAMBDA p : NeedsEncode(mean - cache[p]))
    IN  [k \in 1..Len(need) |-> [path |-> need[k], delta |-> mean - cache[need[k]]]]

(* assemble.py:322-326 *)
Substitute(sequence, norm_cache) ==
    [k \in 1..Len(sequence) |->
        IF sequence[k] \in DOMAIN norm_cache THEN norm_cache[sequence[k]] ELSE sequence[k]]

(* assemble.py:258-281: all probes collected; compute the mean and the jobs, *)
(* submit one _encode_one per job                                           *)
LumaPlan ==
    /\ pc = "luma_probe"
    /\ asm.pending = {}
    /\ IF DOMAIN asm.luma_cache = {}
       THEN /\ pc' = "finalize"
            /\ asm' = asm
       ELSE LET mean == GlobalMean(asm.luma_cache, asm.unique_paths)
                jobs == EncodeJobs(asm.luma_cache, asm.unique_paths, mean)
            IN  /\ asm' = [asm EXCEPT !.global_mean = mean, !.encode_jobs = jobs,
                                      !.pending = 1..Len(jobs)]
                /\ pc' = "luma_encode"
    /\ UNCHANGED <<env, run, prev, rng, coordVars, manifest, saved, loop_i, unit>>

(* assemble.py:303: new_luma = luma_cache.get(clip_path, 128.0) + delta * strength *)
NewLumaUnscaled(cache, path, delta, strength2) == cache[path] + delta
NewLumaFromRunningMean(cache, path, delta, strength2) ==
    LET all == CHOOSE q \in [1..Cardinality(DOMAIN cache) -> DOMAIN cache] :
                   \A x \in DOMAIN cache : \E k \in DOMAIN q : q[k] = x
        mean == SumSeq([k \in 1..Len(all) |-> cache[all[k]]]) \div Len(all)
    IN  cache[path] + ((mean - cache[path]) * strength2) \div 2
NewLuma(cache, path, delta, strength2) == cache[path] + (delta * strength2) \div 2

(* assemble.py:283-315: an _encode_one future completes; on success the    *)
(* collecting thread records the variant and its estimated luma            *)
LumaEncodeComplete(j) ==
    /\ pc = "luma_encode"
    /\ j \in asm.pending
    /\ LET job == asm.encode_jobs[j]
           out == LnormPath(j - 1)
       IN  \E o \in Outcomes(Key("encode", job.path), EncodeOutcomes) :
             /\ env' = EnvAfter(Key("encode", job.path), o)
             /\ IF o.kind = "ok"
                THEN /\ asm' = [asm EXCEPT
                                  !.norm_cache = (job.path :> out) @@ @,
                                  !.luma_cache =
                                      (out :> NewLuma(asm.luma_cache, job.path, job.delta,
                                                      env.cfg.antistrobe_luma_strength2)) @@ @,
                                  !.pending = @ \ {j},
                                  !.encoded = Count(@, job.path)]
                     /\ pc' = pc
                ELSE IF o.kind = "error"
                THEN /\ asm' = [asm EXCEPT !.pending = @ \ {j},
                                           !.encoded = Count(@, job.path)]
                     /\ pc' = pc
                ELSE /\ pc' = "crashed:encode"      \* TimeoutExpired leaves future.result()
                     /\ asm' = asm
    /\ UNCHANGED <<run, prev, rng, coordVars, manifest, saved, loop_i, unit>>

(* assemble.py:321-328: every encode collected; build the final sequence *)
LumaSubstitute ==
    /\ pc = "luma_encode"
    /\ asm.pending = {}
    /\ asm' = [asm EXCEPT !.sequence = Substitute(@, asm.norm_cache)]
    /\ pc' = "finalize"
    /\ UNCHANGED <<env, run, prev, rng, coordVars, manifest, saved, loop_i, unit>>

(* assemble.py:77-83 *)
NormFrameMap(norm_cache, chunk_frame_map, image_frame_map) ==
    LET known == {o \in DOMAIN norm_cache :
                     o \in DOMAIN chunk_frame_map \/ o \in DOMAIN image_frame_map}
    IN  [np \in {norm_cache[o] : o \in known} |->
            LET o == CHOOSE o \in known : norm_cache[o] = np
            IN  IF o \in DOMAIN chunk_frame_map THEN chunk_frame_map[o]
                ELSE image_frame_map[o]]

(* assemble.py:341-356: the frames one entry contributes; probed gives the *)
(* result of the last-resort probe of a path none of the maps holds        *)
EntryKnown(path, a) ==
    \/ (a.buffer_path # NoPath /\ path = a.buffer_path)
    \/ path \in DOMAIN a.chunk_frame_map
    \/ path \in DOMAIN a.image_frame_map
    \/ path \in DOMAIN a.norm_frame_map
EntryFramesBufferFree(path, a, cfg, probed) ==
    IF a.buffer_path # NoPath /\ path = a.buffer_path THEN 0
    ELSE IF path \in DOMAIN a.chunk_frame_map THEN a.chunk_frame_map[path]
    ELSE IF path \in DOMAIN a.image_frame_map THEN a.image_frame_map[path]
    ELSE IF path \in DOMAIN a.norm_frame_map THEN a.norm_frame_map[path]
    ELSE probed[path]
EntryFrames(path, a, cfg, probed) ==
    IF a.buffer_path # NoPath /\ path = a.buffer_path THEN cfg.antistrobe_buffer_frames
    ELSE IF path \in DOMAIN a.chunk_frame_map THEN a.chunk_frame_map[path]
    ELSE IF path \in DOMAIN a.image_frame_map THEN a.image_frame_map[path]
    ELSE IF path \in DOMAIN a.norm_frame_map THEN a.norm_frame_map[path]
    ELSE probed[path]

(* assemble.py:331-357 *)
_count_expected_frames(sequence, a, cfg, probed) ==
    SumSeq([k \in 1..Len(sequence) |-> EntryFrames(sequence[k], a, cfg, probed)])

(* probe of a file the maps do not hold: its frames, or ProbeError *)
TrueFrames(path, a, cfg) ==
    LET origs == {o \in DOMAIN a.norm_cache : a.norm_cache[o] = path}
        o     == IF origs = {} THEN path ELSE CHOOSE x \in origs : TRUE
    IN  IF o = BufferPath THEN cfg.antistrobe_buffer_frames
        ELSE IF o \in DOMAIN a.chunk_frame_map THEN a.chunk_frame_map[o]
        ELSE IF o \in DOMAIN a.image_frame_map THEN a.image_frame_map[o]
        ELSE 0

(* assemble.py:77-93: norm_frame_map, manifest.sequence_order and the *)
(* expected frame count                                              *)
Finalize ==
    /\ pc = "finalize"
    /\ LET a  == [asm EXCEPT !.norm_frame_map =
                      NormFrameMap(asm.norm_cache, asm.chunk_frame_map, asm.image_frame_map)]
           unknown == {p \in Range(a.sequence) : ~EntryKnown(p, a)}
       IN  \E ok \in BOOLEAN :
             /\ ~ok => unknown # {} /\ env.faults > 0
             /\ LET probed   == [p \in unknown |-> IF ok THEN TrueFrames(p, a, env.cfg) ELSE 0]
                    expected == _count_expected_frames(a.sequence, a, env.cfg, probed)
                IN  /\ asm' = [a EXCEPT !.expected = expected,
                                        !.probed = [k \in 1..Len(SelectSeq(a.sequence,
                                                        LAMBDA p : p \in unknown)) |->
                                                     SelectSeq(a.sequence, LAMBDA p : p \in unknown)[k]]]
                    /\ manifest' = [manifest EXCEPT !.sequence_order = a.sequence,
                                                    !.expected_frame_count = expected]
             /\ env' = IF ok THEN env ELSE [env EXCEPT !.faults = @ - 1]
    /\ pc' = "concat"
    /\ UNCHANGED <<run, prev, rng, coordVars, saved, loop_i, unit>>

(* assemble.py:95-99 with 373-391: write the concat list and run the concat; *)
(* a nonzero exit raises RuntimeError out of assemble and out of main        *)
ConcatFailureIgnored(kind) == "verify"
AfterConcat(kind) == IF kind = "ok" THEN "verify" ELSE "crashed:concat"

Concat ==
    /\ pc = "concat"
    /\ \E o \in Outcomes(Key("concat", OutputPath), ConcatOutcomes) :
         /\ env' = EnvAfter(Key("concat", OutputPath), o)
         /\ pc' = AfterConcat(o.kind)
    /\ asm' = [asm EXCEPT !.concats = @ + 1]
    /\ UNCHANGED <<run, prev, rng, coordVars, manifest, saved, loop_i, unit>>

(* assemble.py:101-109: probe the output and record it; a frame-count *)
(* mismatch only prints a warning                                     *)
MismatchFatal(frame_count, expected) ==
    IF frame_count = expected THEN "delta_pass" ELSE "crashed:verify"
AfterVerify(frame_count, expected) == "delta_pass"

VerifyOutput ==
    /\ pc = "verify"
    /\ \E o \in Outcomes(Key("probe", OutputPath), OutputProbeOutcomes) :
         /\ env' = EnvAfter(Key("probe", OutputPath), o)
         /\ IF o.kind = "ok"
            THEN /\ manifest' = set_output(manifest, OutputPath, asm.expected + o.val)
                 /\ pc' = AfterVerify(asm.expected + o.val, asm.expected)
            ELSE /\ pc' = "crashed:verify"
                 /\ manifest' = manifest
    /\ UNCHANGED <<run, prev, rng, coordVars, saved, loop_i, asm, unit>>

(* assemble.py:111-113 and 401-408: enter _luma_delta_pass and submit the *)
(* probes of the paths the cache does not hold                            *)
LumaDeltaStart ==
    /\ pc = "delta_pass"
    /\ IF env.cfg.antistrobe_enabled /\ env.cfg.antistrobe_delta_threshold > 0
       THEN /\ asm' = [asm EXCEPT !.pending = ToProbe(Range(asm.sequence), asm.luma_cache)]
            /\ pc' = "delta_probe"
       ELSE /\ pc' = "save"
            /\ asm' = asm
    /\ UNCHANGED <<env, run, prev, rng, coordVars, manifest, saved, loop_i, unit>>

(* assemble.py:417: delta > threshold *)
ExceedsOrEquals(delta, threshold) == delta >= Luma(threshold)
Exceeds(delta, threshold) == delta > Luma(threshold)

(* assemble.py:412-422 *)
RECURSIVE FlagsFrom(_, _, _, _, _)
FlagsFrom(k, sequence, cache, threshold, m) ==
    IF k > Len(sequence) - 1 THEN m
    ELSE LET delta == Abs(cache[sequence[k]] - cache[sequence[k + 1]])
         IN  FlagsFrom(k + 1, sequence, cache, threshold,
                       IF Exceeds(delta, threshold)
                       THEN add_luma_flag(m, [position |-> k - 1, delta |-> delta,
                                              threshold |-> threshold])
                       ELSE m)

(* assemble.py:410-423: every probe collected; flag the transitions, return *)
LumaDeltaFlags ==
    /\ pc = "delta_probe"
    /\ asm.pending = {}
    /\ manifest' = FlagsFrom(1, asm.sequence, asm.luma_cache,
                             env.cfg.antistrobe_delta_threshold, manifest)
    /\ pc' = "save"
    /\ UNCHANGED <<env, run, prev, rng, coordVars, saved, loop_i, asm, unit>>

(* cli.py:167-170: manifest.save *)
SaveManifest ==
    /\ pc = "save"
    /\ saved' = TRUE
    /\ pc' = "done"
    /\ UNCHANGED <<env, run, prev, rng, coordVars, manifest, loop_i, asm, unit>>

(* ---------------------------------------------------------------- re-run *)
(* the program is invoked again with the same seed, inputs and config, and *)
(* the media service answers every call as it did the first time           *)
Rerun ==
    /\ pc = "done"
    /\ run = 1
    /\ run' = 2
    /\ prev' = [set |-> TRUE, manifest |-> manifest, chunk_paths |-> asm.chunk_paths]
    /\ pc' = "normalize"
    /\ rng' = RngSeed(env.seed)
    /\ results' = <<>>
    /\ normalized_videos' = <<>>
    /\ images' = [k \in 1..env.ni |-> ImagePath(k - 1)]
    /\ log' = <<>>
    /\ sub_seeds' = <<>>
    /\ tasks' = <<>>
    /\ chunk_results' = <<>>
    /\ all_chunks' = <<>>
    /\ manifest' = NewManifest
    /\ saved' = FALSE
    /\ loop_i' = 0
    /\ asm' = NoAsm
    /\ UNCHANGED <<env, unit>>

(* --------------------------------------------------------- specifications *)
Next ==
    \/ \E idx \in 0..(MaxVideos - 1) : NormalizeComplete(idx)
    \/ NormalizeCollect
    \/ ProbeImage
    \/ SurvivalCheck
    \/ DrawSubSeeds
    \/ \E k \in 1..MaxVideos : ChunkStart(k)
    \/ \E k \in 1..MaxVideos : ChunkIter(k)
    \/ \E k \in 1..MaxVideos : ChunkComplete(k)
    \/ Reassemble
    \/ AsmShuffle
    \/ PrepareImage
    \/ InterleaveImages
    \/ InsertBuffers
    \/ LumaNormalizeStart
    \/ \E p \in asm.pending : LumaProbeComplete(p)
    \/ LumaPlan
    \/ \E j \in asm.pending : LumaEncodeComplete(j)
    \/ LumaSubstitute
    \/ Finalize
    \/ Concat
    \/ VerifyOutput
    \/ LumaDeltaStart
    \/ LumaDeltaFlags
    \/ SaveManifest

Spec == Init /\ [][Next]_vars

NextRerun == Next \/ Rerun
SpecRerun == Init /\ [][NextRerun]_vars

(* chunk_video alone: the pipeline stands still *)
UnitInit ==
    /\ unit \in UnitStates
    /\ env = [seed |-> 0, nv |-> 0, ni |-> 0, cfg |-> unit.cfg, memo |-> <<>>, faults |-> 0]
    /\ run = 1
    /\ prev = [set |-> FALSE]
    /\ pc = "normalize"
    /\ rng = RngSeed(0)
    /\ results = <<>>
    /\ normalized_videos = <<>>
    /\ images = <<>>
    /\ log = <<>>
    /\ sub_seeds = <<>>
    /\ tasks = <<>>
    /\ chunk_results = <<>>
    /\ all_chunks = <<>>
    /\ manifest = [rng_seed |-> 0, chunks |-> <<>>, image_insertions |-> <<>>,
                   luma_flags |-> <<>>, sequence_order |-> <<>>, expected_frame_count |-> 0,
                   actual_frame_count |-> 0, output_checksum |-> "", output_path |-> NoPath]
    /\ saved = FALSE
    /\ loop_i = 0
    /\ asm = NoAsm
UnitNext == UnitProbe \/ UnitLoop
SpecChunk == UnitInit /\ [][UnitNext]_vars
(* the call runs to its end: the interpreter keeps executing the loop *)
SpecChunkFair == UnitInit /\ [][UnitNext]_vars /\ WF_vars(UnitNext)

(* ------------------------------------------- stand-alone Manifest calls *)
(* Any sequence of add_chunk, add_image, add_luma_flag and set_output on   *)
(* one Manifest; log keeps the calls made, in call order.                  *)
CallChunks ==
    {ChunkInfo(NormPath(0), st, 2, ChunkPath(0, st), st) : st \in 0..1}
CallImages ==
    {[source_file |-> ImgSegPath(i), position |-> i, duration_frames |-> 1] : i \in 0..1}
CallFlags ==
    {[position |-> i, delta |-> Luma(30), threshold |-> 27] : i \in 0..1}
CallOutputs == {<<OutputPath, 4>>, <<OutputPath, 5>>}

ManifestInit ==
    /\ env = [seed |-> 0, nv |-> 0, ni |-> 0, cfg |-> IdleUnit.cfg, memo |-> <<>>, faults |-> 0]
    /\ run = 1
    /\ prev = [set |-> FALSE]
    /\ pc = "manifest"
    /\ rng = RngSeed(0)
    /\ results = <<>>
    /\ normalized_videos = <<>>
    /\ images = <<>>
    /\ log = <<>>
    /\ sub_seeds = <<>>
    /\ tasks = <<>>
    /\ chunk_results = <<>>
    /\ all_chunks = <<>>
    /\ manifest = [rng_seed |-> 0, chunks |-> <<>>, image_insertions |-> <<>>,
                   luma_flags |-> <<>>, sequence_order |-> <<>>, expected_frame_count |-> 0,
                   actual_frame_count |-> 0, output_checksum |-> "", output_path |-> NoPath]
    /\ saved = FALSE
    /\ loop_i = 0
    /\ asm = NoAsm
    /\ unit = IdleUnit

CallAddChunk ==
    /\ pc = "manifest" /\ Len(log) < MaxCalls
    /\ \E c \in CallChunks :
          /\ manifest' = add_chunk(manifest, c)
          /\ log' = Append(log, <<"add_chunk", c>>)
    /\ UNCHANGED <<env, run, prev, pc, rng, results, normalized_videos, images,
                   sub_seeds, tasks, chunk_results, all_chunks, saved, loop_i, asm, unit>>

CallAddImage ==
    /\ pc = "manifest" /\ Len(log) < MaxCalls
    /\ \E e \in CallImages :
          /\ manifest' = add_image(manifest, e)
          /\ log' = Append(log, <<"add_image", e>>)
    /\ UNCHANGED <<env, run, prev, pc, rng, results, normalized_videos, images,
                   sub_seeds, tasks, chunk_results, all_chunks, saved, loop_i, asm, unit>>

CallAddLumaFlag ==
    /\ pc = "manifest" /\ Len(log) < MaxCalls
    /\ \E f \in CallFlags :
          /\ manifest' = add_luma_flag(manifest, f)
          /\ log' = Append(log, <<"add_luma_flag", f>>)
    /\ UNCHANGED <<env, run, prev, pc, rng, results, normalized_videos, images,
                   sub_seeds, tasks, chunk_results, all_chunks, saved, loop_i, asm, unit>>

CallSetOutput ==
    /\ pc = "manifest" /\ Len(log) < MaxCalls
    /\ \E o \in CallOutputs :
          /\ manifest' = set_output(manifest, o[1], o[2])
          /\ log' = Append(log, <<"set_output", o>>)
    /\ UNCHANGED <<env, run, prev, pc, rng, results, normalized_videos, images,
                   sub_seeds, tasks, chunk_results, all_chunks, saved, loop_i, asm, unit>>

ManifestNext == CallAddChunk \/ CallAddImage \/ CallAddLumaFlag \/ CallSetOutput
SpecManifest == ManifestInit /\ [][ManifestNext]_vars

(* ================================================================ claims *)

(* ------------------------------------------------ chunk_video (SpecChunk) *)
(* frames of the source the emitted chunks do not cover *)
UnitRemainder ==
    unit.frames - SumSeq([k \in 1..Len(unit.task.chunks) |-> unit.task.chunks[k].frame_count])

(* C3: every chunk chunk_video has emitted so far, for every source and     *)
(* every sequence of draws, has chunk_frames_min <= frame_count <=          *)
(* chunk_frames_max, the clamped last chunk included.                       *)
ChunkLengthBounds ==
    \A k \in 1..Len(unit.task.chunks) :
        /\ unit.cfg.chunk_frames_min <= unit.task.chunks[k].frame_count
        /\ unit.task.chunks[k].frame_count <= unit.cfg.chunk_frames_max

(* a call has returned whose last chunk was drawn longer than the frames    *)
(* left and clamped to them                                                 *)
ChunkLengthBoundsWitness ==
    /\ unit.task.state = "returned"
    /\ Len(unit.task.chunks) >= 2
    /\ unit.task.clamps > 0
    /\ unit.task.chunks[Len(unit.task.chunks)].frame_count < unit.cfg.chunk_frames_max

(* C4: the chunks of one source tile it from frame 0 without gap or overlap, *)
(* none reaches past total_frames, and when chunk_video has returned the    *)
(* frames left uncovered are r with 0 <= r < chunk_frames_min (no chunk at  *)
(* all when total_frames < chunk_frames_min).                               *)
ChunkTiling ==
    LET cs == unit.task.chunks
    IN  /\ \A k \in 1..Len(cs) :
              /\ cs[k].start_frame =
                     (IF k = 1 THEN 0 ELSE cs[k - 1].start_frame + cs[k - 1].frame_count)
              /\ cs[k].start_frame + cs[k].frame_count <= unit.frames
        /\ unit.task.state = "returned" =>
              /\ 0 <= UnitRemainder
              /\ UnitRemainder < unit.cfg.chunk_frames_min
              /\ (unit.frames < unit.cfg.chunk_frames_min => cs = <<>>)

(* a call has returned several chunks and discarded a non-empty remainder *)
ChunkTilingWitness ==
    /\ unit.task.state = "returned"
    /\ Len(unit.task.chunks) >= 2
    /\ UnitRemainder > 0

(* C5 as stated: when chunk_video returns, the draws it made are as many as *)
(* the chunks it returns.                                                   *)
OneDrawPerChunk ==
    unit.task.state = "returned" => unit.task.draws = Len(unit.task.chunks)

(* C5, corrected: chunk_video draws once at the top of every loop          *)
(* iteration; the draws are as many as the chunks emitted while the loop   *)
(* runs, and on return as many as the chunks plus one discarded draw when  *)
(* the loop stopped on a non-empty remainder shorter than chunk_frames_min. *)
DrawsPerChunk ==
    /\ unit.task.state = "running" => unit.task.draws = Len(unit.task.chunks)
    /\ unit.task.state = "returned" =>
          unit.task.draws = Len(unit.task.chunks) + (IF UnitRemainder > 0 THEN 1 ELSE 0)

(* a call has returned after a draw that yielded no chunk *)
DrawsPerChunkWitness ==
    /\ unit.task.state = "returned"
    /\ Len(unit.task.chunks) >= 1
    /\ unit.task.draws = Len(unit.task.chunks) + 1

(* ------------------------------------------------------ coordinator (Spec) *)
(* positions of the main thread before the chunk futures have all been     *)
(* collected                                                                *)
BeforeReassemble ==
    {"normalize", "images", "seeds", "chunk", "aborted",
     "crashed:normalize", "crashed:images", "crashed:chunk"}

(* C6: every sub-seed is drawn from the parent generator before a chunk    *)
(* task exists; the k-th surviving video holds the k-th value of the       *)
(* parent stream and its worker draws only from the generator seeded with  *)
(* it; the parent generator has made as many draws as there are survivors  *)
(* and stands still for the whole chunk stage, whatever the workers do.    *)
SubSeedOrder ==
    LET n        == Len(normalized_videos)
        after(k) == ((3 ^ k) * RngSeed(env.seed)) % 31   \* parent state after k draws
    IN  /\ pc \in {"normalize", "images", "seeds"} =>
              /\ tasks = <<>> /\ sub_seeds = <<>>
              /\ rng = after(0)
        /\ pc \in {"chunk", "crashed:chunk"} =>
              /\ Len(sub_seeds) = n /\ Len(tasks) = n
              /\ rng = after(n)
              /\ \A k \in 1..n :
                    /\ sub_seeds[k] = after(k) % 30
                    /\ tasks[k].sub_rng =
                           ((3 ^ tasks[k].draws) * RngSeed(sub_seeds[k])) % 31

(* two survivors; the worker of the second has drawn and returned its      *)
(* chunks before the worker of the first has started                       *)
SubSeedOrderWitness ==
    /\ pc = "chunk"
    /\ Len(tasks) = 2
    /\ tasks[1].state = "queued"
    /\ tasks[2].state = "returned"
    /\ tasks[2].draws >= 2

(* C7: once the chunk futures are collected, all_chunks is the per-source  *)
(* chunk lists of the workers concatenated in source order, the i-th chunk *)
(* has chunk_index i (0-based), and the manifest holds the same records in *)
(* the same order, whatever order the workers completed in.                *)
OrderedCollection ==
    pc \notin BeforeReassemble =>
        LET flat == Flatten([k \in 1..Len(tasks) |-> tasks[k].chunks])
        IN  /\ Len(all_chunks) = Len(flat)
            /\ \A j \in 1..Len(all_chunks) :
                  /\ all_chunks[j].chunk_index = j - 1
                  /\ all_chunks[j].source_file = flat[j].source_file
                  /\ all_chunks[j].start_frame = flat[j].start_frame
                  /\ all_chunks[j].frame_count = flat[j].frame_count
                  /\ all_chunks[j].chunk_path = flat[j].chunk_path
            /\ \A i, j \in 1..Len(all_chunks) :
                  i < j =>
                     \/ all_chunks[i].source_file[2] < all_chunks[j].source_file[2]
                     \/ /\ all_chunks[i].source_file = all_chunks[j].source_file
                        /\ all_chunks[i].start_frame < all_chunks[j].start_frame
            /\ manifest.chunks = all_chunks

(* the second video's worker finished first, and both videos gave chunks *)
OrderedCollectionWitness ==
    /\ pc = "assemble"
    /\ Len(all_chunks) >= 4
    /\ \E i, j \in 1..Len(log) :
          /\ i < j
          /\ log[i] = <<"chunks", NormPath(1)>>
          /\ log[j] = <<"chunks", NormPath(0)>>

(* C8 as stated: every input video whose probe or normalize failed is      *)
(* excluded and has its skip line, the survivors keep the input order, and *)
(* the run stops before chunking only when no video and no image survives. *)
NormalizeFailureIsolated ==
    LET failed(idx) == /\ Key("normalize_one", VideoPath(idx)) \in DOMAIN env.memo
                       /\ env.memo[Key("normalize_one", VideoPath(idx))].kind # "ok"
    IN  /\ \A idx \in 0..(env.nv - 1) :
              failed(idx) =>
                 /\ <<"SKIPPED", VideoPath(idx)>> \in Range(log)
                 /\ NormPath(idx) \notin Range(normalized_videos)
        /\ \A i, j \in 1..Len(normalized_videos) :
              i < j => normalized_videos[i][2] < normalized_videos[j][2]
        /\ pc \in {"aborted", "crashed:normalize", "crashed:images"} =>
              /\ pc = "aborted"
              /\ normalized_videos = <<>> /\ images = <<>>
        /\ (pc \notin {"normalize", "images", "crashed:normalize", "crashed:images"}
              /\ normalized_videos = <<>> /\ images = <<>>) => pc = "aborted"

(* C9 as stated, in the case it names: a chunk task that raised does not   *)
(* stop the run while another video has returned chunks, and the chunks    *)
(* every worker returned reach assemble.                                   *)
ChunkFailureIsolated ==
    /\ pc = "crashed:chunk" =>
          ~\E k \in 1..Len(tasks) : tasks[k].state = "returned" /\ tasks[k].chunks # <<>>
    /\ pc \notin BeforeReassemble =>
          \A k \in 1..Len(tasks) :
             tasks[k].state = "returned" =>
                \A c \in Range(tasks[k].chunks) :
                   c.chunk_path \in {all_chunks[j].chunk_path : j \in 1..Len(all_chunks)}

(* C10: when the concat call has failed the run has stopped there: the     *)
(* manifest has no output record (actual_frame_count 0, output_checksum    *)
(* and output_path empty), no luma flag, and no manifest file is written.  *)
ConcatFailureFatal ==
    (/\ Key("concat", OutputPath) \in DOMAIN env.memo
     /\ env.memo[Key("concat", OutputPath)].kind # "ok") =>
        /\ pc = "crashed:concat"
        /\ manifest.actual_frame_count = 0
        /\ manifest.output_checksum = ""
        /\ manifest.output_path = NoPath
        /\ manifest.luma_flags = <<>>
        /\ ~saved

(* the concat of a sequence of chunks, an image and buffers has failed *)
ConcatFailureFatalWitness ==
    /\ pc = "crashed:concat"
    /\ asm.concats = 1
    /\ Len(manifest.sequence_order) >= 3
    /\ manifest.image_insertions # <<>>
    /\ manifest.chunks # <<>>

(* -------------------------------------------------- determinism (SpecRerun) *)
(* C1: a second run with the same seed, inputs, config and media-service   *)
(* outcomes records the chunk descriptors, the shuffled chunk order and    *)
(* the image insertion positions of the first run, under every completion  *)
(* order of the normalize workers and of the chunk workers of both runs.   *)
Determinism ==
    (run = 2 /\ pc \in {"save", "done"}) =>
        /\ Len(manifest.chunks) = Len(prev.manifest.chunks)
        /\ \A k \in 1..Len(manifest.chunks) :
              /\ manifest.chunks[k].source_file = prev.manifest.chunks[k].source_file
              /\ manifest.chunks[k].start_frame = prev.manifest.chunks[k].start_frame
              /\ manifest.chunks[k].frame_count = prev.manifest.chunks[k].frame_count
              /\ manifest.chunks[k].chunk_index = prev.manifest.chunks[k].chunk_index
        /\ asm.chunk_paths = prev.chunk_paths
        /\ manifest.image_insertions = prev.manifest.image_insertions

(* the re-run has finished with chunks of two videos and an image, its     *)
(* second normalize worker and its second chunk worker finishing first     *)
DeterminismWitness ==
    /\ run = 2 /\ pc = "done"
    /\ Len(manifest.chunks) >= 4
    /\ manifest.image_insertions # <<>>
    /\ \E i, j \in 1..Len(log) :
          i < j /\ log[i] = <<"ok", VideoPath(1)>> /\ log[j] = <<"ok", VideoPath(0)>>
    /\ \E i, j \in 1..Len(log) :
          i < j /\ log[i] = <<"chunks", NormPath(1)>> /\ log[j] = <<"chunks", NormPath(0)>>

(* C2 as stated: with luma normalization enabled the re-run stores the     *)
(* sequence_order of the first run, variant names included.                *)
SequenceReproducible ==
    (/\ run = 2 /\ pc \in {"save", "done"}
     /\ env.cfg.antistrobe_enabled /\ env.cfg.antistrobe_luma_strength2 > 0) =>
        manifest.sequence_order = prev.manifest.sequence_order

(* ------------------------------------------------------- assemble (Spec) *)
(* C11 as stated: a failed render of one image does not stop the run while *)
(* chunks or other images are there to be sequenced.                       *)
RenderFailureIsolated ==
    pc = "crashed:render" => (all_chunks = <<>> /\ Len(images) <= 1)

(* draws the main generator has made once the chunk paths are shuffled:    *)
(* one per surviving video, then one per position of the shuffle           *)
DrawsThroughShuffle == Len(normalized_videos) + Max(Len(all_chunks) - 1, 0)
(* state of the main generator after k draws *)
MainAfter(k) == ((3 ^ k) * RngSeed(env.seed)) % 31

(* C12: the shuffled list holds every chunk path exactly once and nothing  *)
(* else; the main generator has made the sub-seed draws, then the draws of *)
(* one shuffle, then one draw per image rendered so far: the shuffle came  *)
(* once, after the sub-seeds and before any image draw.                    *)
ShuffleOnce ==
    /\ pc = "assemble" => rng = MainAfter(Len(normalized_videos))
    /\ pc = "prepare_images" =>
          /\ Len(asm.chunk_paths) = Len(all_chunks)
          /\ \A k \in 1..Len(all_chunks) :
                Cardinality({j \in 1..Len(asm.chunk_paths) :
                                asm.chunk_paths[j] = all_chunks[k].chunk_path}) = 1
          /\ rng = MainAfter(DrawsThroughShuffle + loop_i)

(* four chunks have been shuffled out of their order and an image drawn *)
ShuffleOnceWitness ==
    /\ pc = "prepare_images"
    /\ loop_i >= 1
    /\ Len(asm.chunk_paths) >= 4
    /\ asm.chunk_paths # [k \in 1..Len(all_chunks) |-> all_chunks[k].chunk_path]

(* C13: after the interleaving the sequence has C + K entries, the k-th    *)
(* manifest record names the k-th image clip with a position in            *)
(* 0..(C + k - 1) that is the value the main generator gave at that draw,  *)
(* every image clip occurs once, and the chunks keep their shuffled order. *)
ImageInterleaving ==
    pc = "buffers" =>
        LET C    == Len(asm.chunk_paths)
            K    == Len(asm.image_segments)
            recs == manifest.image_insertions
        IN  /\ Len(asm.sequence) = C + K
            /\ Len(recs) = K
            /\ \A k \in 1..K :
                  /\ recs[k].source_file = ImgSegPath(k - 1)
                  /\ recs[k].source_file = asm.image_segments[k][1]
                  /\ recs[k].duration_frames = asm.image_segments[k][2]
                  /\ recs[k].position \in 0..(C + k - 1)
                  /\ recs[k].position = MainAfter(DrawsThroughShuffle + K + k) % (C + k)
                  /\ Cardinality({j \in 1..Len(asm.sequence) :
                                     asm.sequence[j] = ImgSegPath(k - 1)}) = 1
            /\ SelectSeq(asm.sequence, LAMBDA p : p[1] = "chunk") = asm.chunk_paths

(* two images have been inserted among two chunks, the second one not at *)
(* the end                                                               *)
ImageInterleavingWitness ==
    /\ pc = "buffers"
    /\ Len(asm.chunk_paths) = 2
    /\ Len(manifest.image_insertions) = 2
    /\ manifest.image_insertions[2].position < 3

(* C14 as stated: in the stored final sequence the index a record's        *)
(* position names holds that record's image clip or its adjusted variant.  *)
RecordedPositionIsFinal ==
    pc \in {"concat", "verify", "delta_pass", "delta_probe", "save", "done"} =>
        \A k \in 1..Len(manifest.image_insertions) :
            LET r   == manifest.image_insertions[k]
                seq == manifest.sequence_order
            IN  /\ r.position + 1 <= Len(seq)
                /\ \/ seq[r.position + 1] = r.source_file
                   \/ /\ r.source_file \in DOMAIN asm.norm_cache
                      /\ seq[r.position + 1] = asm.norm_cache[r.source_file]

(* C15: the buffer step turns a sequence of N >= 2 entries into 2N - 1     *)
(* entries, the original ones in order at the even indices and the one     *)
(* buffer clip at every odd index; it leaves a sequence of at most one     *)
(* entry as it is; with buffering off or a buffer-frame count of 0 the     *)
(* sequence is left as it is and no buffer clip is rendered.               *)
BufferShape ==
    [][(pc = "buffers" /\ pc' = "luma_normalize") =>
          LET N   == Len(asm.sequence)
              on  == env.cfg.antistrobe_enabled /\ env.cfg.antistrobe_buffer_frames > 0
              out == asm'.sequence
          IN  /\ on /\ N >= 2 =>
                    /\ Len(out) = 2 * N - 1
                    /\ \A k \in 1..N : out[2 * k - 1] = asm.sequence[k]
                    /\ \A k \in 1..(N - 1) : out[2 * k] = BufferPath
                    /\ asm'.buffer_path = BufferPath
              /\ on /\ N <= 1 => out = asm.sequence
              /\ ~on => /\ out = asm.sequence
                        /\ asm'.buffer_path = NoPath
                        /\ Key("buffer", BufferPath) \notin DOMAIN env'.memo]_vars

(* buffers stand between two chunks and an image *)
BufferShapeWitness ==
    /\ pc = "luma_normalize"
    /\ asm.buffer_path = BufferPath
    /\ Len(asm.sequence) = 5
    /\ Len(asm.image_segments) = 1

(* C16: in one run of the luma normalization no path is given to the       *)
(* encode step twice, however often it occurs in the sequence, and once    *)
(* the sequence is rebuilt no adjusted path is left in it: each of its     *)
(* occurrences holds the one variant made for it.                          *)
OneEncodePerPath ==
    /\ \A p \in DOMAIN asm.encoded : asm.encoded[p] = 1
    /\ \A i, j \in 1..Len(asm.encode_jobs) :
          asm.encode_jobs[i].path = asm.encode_jobs[j].path => i = j
    /\ \A p, q \in DOMAIN asm.norm_cache :
          asm.norm_cache[p] = asm.norm_cache[q] => p = q
    /\ pc \in {"finalize", "concat", "verify", "delta_pass", "delta_probe", "save", "done"} =>
          \A k \in 1..Len(asm.sequence) : asm.sequence[k] \notin DOMAIN asm.norm_cache

(* the buffer clip, which stands at two places, was encoded once and both *)
(* places hold its variant                                                *)
OneEncodePerPathWitness ==
    /\ pc = "finalize"
    /\ BufferPath \in DOMAIN asm.norm_cache
    /\ asm.encoded[BufferPath] = 1
    /\ Cardinality({k \in 1..Len(asm.sequence) :
                       asm.sequence[k] = asm.norm_cache[BufferPath]}) >= 2

(* C17: no step removes an entry of the luma cache or changes its value,   *)
(* and no path is measured a second time, through the probe phase, the     *)
(* encode phase and the delta pass.                                        *)
LumaCacheAppendOnly ==
    [][/\ \A p \in DOMAIN asm.luma_cache :
             p \in DOMAIN asm'.luma_cache /\ asm'.luma_cache[p] = asm.luma_cache[p]
       /\ \A p \in DOMAIN asm'.measured : asm'.measured[p] <= 1]_vars

(* the delta pass has measured a variant-free path after the normalization *)
(* measured others and the encode phase added an estimate                  *)
LumaCacheAppendOnlyWitness ==
    /\ pc = "save"
    /\ env.cfg.antistrobe_luma_strength2 > 0
    /\ env.cfg.antistrobe_delta_threshold > 0
    /\ \E p \in DOMAIN asm.luma_cache : p[1] = "lnorm"
    /\ Cardinality(DOMAIN asm.measured) >= 3

(* C18: a path whose luma measurement failed has 128 in the cache and the  *)
(* run goes on; when the probe phase is over every path of the sequence    *)
(* has its entry, and the mean and every delta are computed from entries   *)
(* the cache holds.                                                        *)
LumaFailureDegrades ==
    /\ \A key \in DOMAIN env.memo :
          (key[1] = "luma" /\ env.memo[key].kind # "ok") =>
              /\ Tail(key) \in DOMAIN asm.luma_cache
              /\ asm.luma_cache[Tail(key)] = Luma(128)
    /\ pc \in {"luma_probe", "delta_probe"} => ENABLED Next
    /\ (pc = "luma_probe" /\ asm.pending = {}) =>
          /\ Range(asm.sequence) \subseteq DOMAIN asm.luma_cache
          /\ Range(asm.unique_paths) = Range(asm.sequence)
    /\ pc = "luma_encode" =>
          \A j \in 1..Len(asm.encode_jobs) :
             /\ asm.encode_jobs[j].path \in DOMAIN asm.luma_cache
             /\ asm.encode_jobs[j].delta =
                    asm.global_mean - asm.luma_cache[asm.encode_jobs[j].path]

(* a measurement failed in the probe phase and the run has reached the     *)
(* encode phase with a job for that path                                   *)
LumaFailureDegradesWitness ==
    /\ pc = "luma_encode"
    /\ \E j \in 1..Len(asm.encode_jobs) :
          /\ Key("luma", asm.encode_jobs[j].path) \in DOMAIN env.memo
          /\ env.memo[Key("luma", asm.encode_jobs[j].path)].kind = "error"

(* C19: the rebuilt sequence has the length of the input sequence; entry i *)
(* is the adjusted variant of input entry i if that path's cached luma is  *)
(* at least 2.0 away from the global mean and its encode succeeded, and is *)
(* input entry i itself otherwise.                                         *)
ConditionalSubstitution ==
    [][(pc = "luma_encode" /\ pc' = "finalize") =>
          LET seq  == asm.sequence
              out  == asm'.sequence
              u    == asm.unique_paths
              mean == SumSeq([k \in 1..Len(u) |-> asm.luma_cache[u[k]]]) \div Len(u)
              adjusted(p) ==
                  /\ Abs(mean - asm.luma_cache[p]) >= Luma(2)
                  /\ Key("encode", p) \in DOMAIN env.memo
                  /\ env.memo[Key("encode", p)].kind = "ok"
          IN  /\ Len(out) = Len(seq)
              /\ \A i \in 1..Len(seq) :
                    IF adjusted(seq[i])
                    THEN /\ out[i][1] = "lnorm"
                         /\ out[i] = asm.norm_cache[seq[i]]
                         /\ \A j \in 1..Len(seq) : seq[j] = seq[i] => out[j] = out[i]
                    ELSE out[i] = seq[i]]_vars

(* the rebuilt sequence holds a variant, a clip whose encode failed and a *)
(* clip close enough to the mean                                          *)
ConditionalSubstitutionWitness ==
    /\ pc = "finalize"
    /\ \E k \in 1..Len(asm.sequence) : asm.sequence[k][1] = "lnorm"
    /\ \E k \in 1..Len(asm.sequence) :
          /\ Key("encode", asm.sequence[k]) \in DOMAIN env.memo
          /\ env.memo[Key("encode", asm.sequence[k])].kind = "error"

(* C20: when no entry of the final sequence needs the last-resort probe    *)
(* (no adjusted buffer clip), the expected frame count in the manifest is  *)
(* the chunks' frame counts plus the images' durations plus the            *)
(* buffer-frame count for every buffer entry, and with buffering on there  *)
(* are C + K - 1 buffer entries when C + K >= 1.                           *)
ExpectedIsSum ==
    (/\ pc \in {"concat", "verify", "delta_pass", "delta_probe", "save", "done"}
     /\ BufferPath \notin DOMAIN asm.norm_cache) =>
        LET C       == Len(all_chunks)
            K       == Len(asm.image_segments)
            buffers == Cardinality({k \in 1..Len(manifest.sequence_order) :
                                       manifest.sequence_order[k] = BufferPath})
            on      == env.cfg.antistrobe_enabled /\ env.cfg.antistrobe_buffer_frames > 0
        IN  /\ manifest.expected_frame_count =
                   SumSeq([k \in 1..C |-> all_chunks[k].frame_count])
                   + SumSeq([k \in 1..K |-> asm.image_segments[k][2]])
                   + env.cfg.antistrobe_buffer_frames * buffers
            /\ buffers = IF on /\ C + K >= 1 THEN C + K - 1 ELSE 0
            /\ asm.probed = <<>>

(* the expected count of a sequence of chunks, an image and buffers *)
ExpectedIsSumWitness ==
    /\ pc = "concat"
    /\ BufferPath \in Range(manifest.sequence_order)
    /\ Len(all_chunks) >= 2
    /\ Len(asm.image_segments) >= 1
    /\ \E k \in 1..Len(manifest.sequence_order) : manifest.sequence_order[k][1] = "lnorm"

(* C21: when the concatenation and the probe of the output succeed, the    *)
(* actual frame count is recorded, nothing else of the manifest changes,   *)
(* and the run goes on to the luma-delta pass and out of it, whether or    *)
(* not the actual count equals the expected one.                           *)
MismatchNotFatal ==
    [][/\ (pc = "verify" /\ pc' # pc) =>
            LET o == env'.memo[Key("probe", OutputPath)]
            IN  IF o.kind = "ok"
                THEN /\ pc' = "delta_pass"
                     /\ manifest' = [manifest EXCEPT
                                       !.output_path = OutputPath,
                                       !.actual_frame_count = asm.expected + o.val,
                                       !.output_checksum = manifest'.output_checksum]
                     /\ asm' = asm
                ELSE pc' = "crashed:verify"
       /\ (pc = "delta_pass" /\ pc' # pc) =>
            pc' = IF env.cfg.antistrobe_enabled /\ env.cfg.antistrobe_delta_threshold > 0
                  THEN "delta_probe" ELSE "save"
       /\ (pc = "delta_probe" /\ pc' # pc) => pc' = "save"
       /\ (pc = "save" /\ pc' # pc) => pc' = "done"]_vars

(* a finished run whose output has one frame more than expected, with the *)
(* luma-delta pass run                                                    *)
MismatchNotFatalWitness ==
    /\ pc = "done"
    /\ manifest.output_path = OutputPath
    /\ manifest.actual_frame_count # manifest.expected_frame_count
    /\ manifest.luma_flags # <<>>

(* the position of a stage of assemble() in the order shuffle, images and *)
(* interleave, buffers, luma normalization, reconciliation, concat,       *)
(* output probe, luma-delta pass, return                                  *)
StageRank(stage) ==
    CASE stage = "assemble"       -> 10
      [] stage = "prepare_images" -> 20
      [] stage = "buffers"        -> 30
      [] stage = "luma_normalize" -> 40
      [] stage = "luma_probe"     -> 41
      [] stage = "luma_encode"    -> 42
      [] stage = "finalize"       -> 50
      [] stage = "concat"         -> 60
      [] stage = "verify"         -> 70
      [] stage = "delta_pass"     -> 80
      [] stage = "delta_probe"    -> 81
      [] stage = "save"           -> 90
      [] stage = "done"           -> 100
      [] OTHER                    -> 0
StageCrashes ==
    {"crashed:render", "crashed:buffer", "crashed:encode", "crashed:concat", "crashed:verify"}

(* C22: the stages of assemble() occur in the order shuffle, image         *)
(* interleave, buffer insertion, luma normalization, reconciliation,       *)
(* concatenation, output probe with set_output, luma-delta pass;           *)
(* sequence_order and expected_frame_count are written before the concat   *)
(* is requested; set_output is called once in a run that returns, after    *)
(* the concat and before any luma flag.                                    *)
StageOrdering ==
    [][/\ (StageRank(pc) > 0 /\ pc' # pc) =>
            \/ pc' \in StageCrashes
            \/ StageRank(pc') > StageRank(pc)
       \* each stage does its work at its place
       /\ asm'.chunk_paths # asm.chunk_paths => pc = "assemble"
       /\ manifest'.image_insertions # manifest.image_insertions => pc = "prepare_images"
       /\ asm'.buffer_path # asm.buffer_path => pc = "buffers" \/ pc = "assemble"
       /\ asm'.luma_cache # asm.luma_cache =>
              StageRank(pc) \div 10 \in {4, 8} \/ pc = "assemble"
       /\ asm'.norm_cache # asm.norm_cache => StageRank(pc) \div 10 = 4 \/ pc = "assemble"
       /\ manifest'.sequence_order # manifest.sequence_order => pc = "finalize"
       /\ manifest'.expected_frame_count # manifest.expected_frame_count => pc = "finalize"
       /\ asm'.sequence # asm.sequence => StageRank(pc) \div 10 \in 1..4
       \* the concat is requested once, with the manifest already written
       /\ asm'.concats # asm.concats =>
              /\ pc = "concat" \/ pc = "assemble"
              /\ pc = "concat" =>
                    /\ asm.concats = 0
                    /\ manifest.sequence_order = asm.sequence
                    /\ manifest.expected_frame_count = asm.expected
       \* set_output: after the concat, before the flags, once
       /\ <<manifest'.output_path, manifest'.actual_frame_count, manifest'.output_checksum>>
            # <<manifest.output_path, manifest.actual_frame_count, manifest.output_checksum>> =>
              /\ pc = "verify"
              /\ asm.concats = 1
              /\ manifest.output_path = NoPath
              /\ manifest.luma_flags = <<>>
       /\ manifest'.luma_flags # manifest.luma_flags =>
              /\ pc = "delta_probe"
              /\ manifest.output_path = OutputPath
       /\ pc' = "done" => manifest'.output_path = OutputPath /\ asm'.concats = 1]_vars

(* a run that went through every stage: images interleaved, buffers,    *)
(* adjusted clips, an output and a luma flag                            *)
StageOrderingWitness ==
    /\ pc = "done"
    /\ manifest.image_insertions # <<>>
    /\ asm.buffer_path = BufferPath
    /\ DOMAIN asm.norm_cache # {}
    /\ manifest.luma_flags # <<>>
    /\ manifest.output_path = OutputPath

(* the 0-based positions i whose pair (i, i + 1) differs by more than t *)
HotPairs(sequence, cache, t) ==
    {i \in 0..(Len(sequence) - 2) :
        Abs(cache[sequence[i + 1]] - cache[sequence[i + 2]]) > Luma(t)}

(* C23: with a threshold T > 0 the luma-delta pass appends a flag for the  *)
(* pair (i, i + 1) of the final sequence exactly when the two lumas differ *)
(* by more than T, with position i, that delta and T, in increasing        *)
(* position order and at most len(sequence) - 1 of them; with T = 0 it     *)
(* appends no flag and measures nothing.                                   *)
LumaDeltaFlagging ==
    [][(pc \in {"delta_pass", "delta_probe"} /\ env.cfg.antistrobe_enabled) =>
          LET T   == env.cfg.antistrobe_delta_threshold
              seq == asm.sequence
              F   == manifest'.luma_flags
              hot == HotPairs(seq, asm.luma_cache, T)
          IN  IF T > 0
              THEN pc' = "save" =>
                     /\ Len(F) = Cardinality(hot)
                     /\ Len(F) <= Max(Len(seq) - 1, 0)
                     /\ \A k \in 1..Len(F) :
                          /\ F[k].position \in hot
                          /\ F[k].delta = Abs(asm.luma_cache[seq[F[k].position + 1]]
                                              - asm.luma_cache[seq[F[k].position + 2]])
                          /\ F[k].threshold = T
                          /\ k > 1 => F[k - 1].position < F[k].position
              ELSE /\ pc' = "save"
                   /\ F = <<>>
                   /\ asm' = asm
                   /\ env' = env]_vars

(* the pass has flagged one pair and left alone a pair whose lumas differ *)
(* by exactly the threshold                                               *)
LumaDeltaFlaggingWitness ==
    /\ pc = "save"
    /\ env.cfg.antistrobe_enabled
    /\ manifest.luma_flags # <<>>
    /\ \E i \in 1..(Len(asm.sequence) - 1) :
          Abs(asm.luma_cache[asm.sequence[i]] - asm.luma_cache[asm.sequence[i + 1]])
              = Luma(env.cfg.antistrobe_delta_threshold)

(* the luma of a clip as the pass would see it: the cached value, or the *)
(* clip's own mean luma when nothing has measured it                     *)
LumaOf(p) == IF p \in DOMAIN asm.luma_cache THEN asm.luma_cache[p] ELSE TrueLuma(p)

(* C24: for every configuration with a delta threshold > 0, the toggle off *)
(* included, a run that finishes has flagged every adjacent pair of the    *)
(* final sequence whose lumas differ by more than the threshold.           *)
DeltaPassAlwaysRuns ==
    (pc = "done" /\ env.cfg.antistrobe_delta_threshold > 0) =>
        \A i \in 1..(Len(asm.sequence) - 1) :
            Abs(LumaOf(asm.sequence[i]) - LumaOf(asm.sequence[i + 1]))
                    > Luma(env.cfg.antistrobe_delta_threshold) =>
                \E k \in 1..Len(manifest.luma_flags) : manifest.luma_flags[k].position = i - 1

(* the arguments of the calls of one method, in call order *)
ArgsOf(calls, method) ==
    LET mine == SelectSeq(calls, LAMBDA c : c[1] = method)
    IN  [k \in 1..Len(mine) |-> mine[k][2]]

(* C25: add_chunk, add_image and add_luma_flag each append one record at   *)
(* the end of their own list and leave the earlier records of that list    *)
(* and every other field of the manifest unchanged, so each list holds its *)
(* records in call order; set_output changes only output_path,             *)
(* actual_frame_count and output_checksum.                                 *)
ManifestAppendOnly ==
    [][LET call == log'[Len(log')]
           arg  == call[2]
       IN  /\ log' = Append(log, call)
           /\ call[1] = "add_chunk" =>
                 /\ manifest' = [manifest EXCEPT !.chunks = manifest'.chunks]
                 /\ Len(manifest'.chunks) = Len(manifest.chunks) + 1
                 /\ SubSeq(manifest'.chunks, 1, Len(manifest.chunks)) = manifest.chunks
                 /\ manifest'.chunks[Len(manifest'.chunks)] =
                        [source_file |-> arg.source_file, start_frame |-> arg.start_frame,
                         frame_count |-> arg.frame_count, chunk_path |-> arg.chunk_path,
                         chunk_index |-> arg.chunk_index]
           /\ call[1] = "add_image" =>
                 /\ manifest' = [manifest EXCEPT !.image_insertions = manifest'.image_insertions]
                 /\ manifest'.image_insertions = Append(manifest.image_insertions, arg)
           /\ call[1] = "add_luma_flag" =>
                 /\ manifest' = [manifest EXCEPT !.luma_flags = manifest'.luma_flags]
                 /\ manifest'.luma_flags = Append(manifest.luma_flags, arg)
           /\ call[1] = "set_output" =>
                 /\ manifest' = [manifest EXCEPT
                                   !.output_path = arg[1],
                                   !.actual_frame_count = arg[2],
                                   !.output_checksum = manifest'.output_checksum]
           /\ manifest'.image_insertions = ArgsOf(log', "add_image")
           /\ manifest'.luma_flags = ArgsOf(log', "add_luma_flag")
           /\ Len(manifest'.chunks) = Len(ArgsOf(log', "add_chunk"))
           /\ \A k \in 1..Len(manifest'.chunks) :
                 manifest'.chunks[k].chunk_path = ArgsOf(log', "add_chunk")[k].chunk_path]_vars

(* two different flags appended, with a set_output between them *)
ManifestAppendOnlyWitness ==
    /\ pc = "manifest"
    /\ Len(manifest.luma_flags) = 2
    /\ manifest.luma_flags[1] # manifest.luma_flags[2]
    /\ Len(log) = 3
    /\ log[2][1] = "set_output"

(* the entries of a sequence that are the buffer clip or its adjusted variant *)
BufferOccurrences(sequence) ==
    Cardinality({k \in 1..Len(sequence) :
                    \/ sequence[k] = BufferPath
                    \/ /\ BufferPath \in DOMAIN asm.norm_cache
                       /\ sequence[k] = asm.norm_cache[BufferPath]})

(* C26: every entry of the final sequence is a chunk, an image clip, the   *)
(* buffer clip or an adjusted variant of one of these, so the expected     *)
(* frame count is resolved from the frame maps alone: every occurrence of  *)
(* the buffer clip, adjusted or not, contributes the configured            *)
(* buffer-frame count.                                                     *)
KnownEntriesNeedNoProbe ==
    pc \in {"concat", "verify", "delta_pass", "delta_probe", "save", "done"} =>
        manifest.expected_frame_count =
            SumSeq([k \in 1..Len(all_chunks) |-> all_chunks[k].frame_count])
            + SumSeq([k \in 1..Len(asm.image_segments) |-> asm.image_segments[k][2]])
            + env.cfg.antistrobe_buffer_frames * BufferOccurrences(manifest.sequence_order)

(* luma normalization runs in this run: assemble.py:74 *)
NormalizationRuns ==
    env.cfg.antistrobe_enabled /\ env.cfg.antistrobe_luma_strength2 > 0

ProbedCache(u, memo) ==
    [p \in Range(u) |->
        IF memo[Key("luma", p)].kind = "ok" THEN memo[Key("luma", p)].val ELSE Luma(128)]
PlannedJobs(u, memo) ==
    LET c    == ProbedCache(u, memo)
        mean == SumSeq([k \in 1..Len(u) |-> c[u[k]]]) \div Len(u)
    IN  SelectSeq(u, LAMBDA p : Abs(mean - c[p]) >= Luma(2))
EncodedNormCache(u, memo) ==
    LET jobs == PlannedJobs(u, memo)
        done == {j \in 1..Len(jobs) : memo[Key("encode", jobs[j])].kind = "ok"}
    IN  [p \in {jobs[j] : j \in done} |->
            LnormPath((CHOOSE j \in done : jobs[j] = p) - 1)]
EncodedLumaCache(u, memo, strength2) ==
    LET c    == ProbedCache(u, memo)
        mean == SumSeq([k \in 1..Len(u) |-> c[u[k]]]) \div Len(u)
        n    == EncodedNormCache(u, memo)
    IN  [v \in {n[p] : p \in DOMAIN n} |->
            LET p == CHOOSE x \in DOMAIN n : n[x] = v
            IN  c[p] + ((mean - c[p]) * strength2) \div 2] @@ c

(* C28: for fixed measurement and encode outcomes the luma cache and the   *)
(* normalized-path cache after the probe phase and after the encode phase  *)
(* are the same for every completion order of the parallel tasks; during   *)
(* the encode phase the entry an encode task reads, the luma of its own    *)
(* original path, does not change, and the writes only add entries for     *)
(* new adjusted paths.                                                     *)
CompletionOrderIndependent ==
    [][/\ (pc' = "luma_probe" /\ asm'.pending = {}) =>
              asm'.luma_cache = ProbedCache(asm'.unique_paths, env'.memo)
       /\ pc = "luma_encode" =>
              /\ \A j \in 1..Len(asm.encode_jobs) :
                    asm'.luma_cache[asm.encode_jobs[j].path]
                        = asm.luma_cache[asm.encode_jobs[j].path]
              /\ \A p \in DOMAIN asm'.luma_cache \ DOMAIN asm.luma_cache : p[1] = "lnorm"
              /\ \A p \in DOMAIN asm.luma_cache :
                    p \in DOMAIN asm'.luma_cache /\ asm'.luma_cache[p] = asm.luma_cache[p]
       /\ (pc = "luma_encode" /\ pc' = "finalize") =>
              /\ asm'.norm_cache = EncodedNormCache(asm.unique_paths, env.memo)
              /\ asm'.luma_cache = EncodedLumaCache(asm.unique_paths, env.memo,
                                                    env.cfg.antistrobe_luma_strength2)]_vars

(* the encode phase with the second job's re-encode collected, and its *)
(* estimate cached, while the first job is still running               *)
CompletionOrderIndependentWitness ==
    /\ pc = "luma_encode"
    /\ Len(asm.encode_jobs) >= 2
    /\ 1 \in asm.pending
    /\ asm.encode_jobs[2].path \in DOMAIN asm.norm_cache
    /\ asm.norm_cache[asm.encode_jobs[2].path] \in DOMAIN asm.luma_cache

(* C29: for every source of total_frames >= 0 and every config with        *)
(* 1 <= chunk_frames_min <= chunk_frames_max, chunk_video returns for      *)
(* every sequence of draws: an iteration of the loop either stops or       *)
(* advances current_frame by at least 1, and at most total_frames chunks   *)
(* are emitted.                                                            *)
ChunkerTerminates ==
    /\ <>(unit.task.state = "returned")
    /\ [][unit.task.state = "running" =>
            /\ \/ unit'.task.state = "returned"
               \/ unit'.task.current_frame >= unit.task.current_frame + 1
            /\ unit'.task.current_frame <= unit.task.total_frames
            /\ Len(unit'.task.chunks) <= unit.task.total_frames]_vars

(* a call that returned as many chunks as the source has frames *)
ChunkerTerminatesWitness ==
    /\ unit.task.state = "returned"
    /\ unit.task.total_frames >= 3
    /\ Len(unit.task.chunks) = unit.task.total_frames

(* C30: a run that passed the survival check and reaches the concatenate  *)
(* call has at least one entry in its final sequence.                     *)
ConcatNeverEmpty ==
    pc = "concat" => Len(asm.sequence) >= 1
====
